---- MODULE Spec2Model ----
(***************************************************************************)
(* Model of google/adk/cli/cli_deploy.py: the two deployment pipelines     *)
(* to_cloud_run and to_agent_engine, run against a small file system.      *)
(*                                                                         *)
(* Python strings that the code inspects character by character (paths,    *)
(* the version string, the output of gcloud) are sequences of one-letter   *)
(* strings; text that is only written out (Dockerfile lines) is a TLA+     *)
(* string.  The file system maps every existing path to its kind and its   *)
(* contents (a sequence of lines).                                         *)
(***************************************************************************)
EXTENDS Integers, Sequences, FiniteSets, TLC

VARIABLES
  fs,        \* the file system: path -> [kind, data]
  gcloudOut, \* stdout of `gcloud config get-value project` in this environment
  pc,        \* position of the running call
  req,       \* the keyword arguments of the running call
  loc,       \* local variables of the running call
  exc,       \* the exception in flight (NoExc when none)
  result,    \* what the call handed to its caller
  deploys,   \* external deploy invocations made by the running call
  cleanups,  \* executions of the finally block during the running call
  fs0        \* the file system when the running call started

vars == <<fs, gcloudOut, pc, req, loc, exc, result, deploys, cleanups, fs0>>

-----------------------------------------------------------------------------
(* Python values *)

\* Optional[str]: None is a value no string equals.
None == <<"<None>">>

\* bool(x) of an Optional[str]
Truthy(x) == x /= None /\ x /= <<>>

RECURSIVE Str(_)
\* the text of a character sequence
Str(s) == IF s = <<>> THEN "" ELSE Head(s) \o Str(Tail(s))

\* str(x) as str.format() renders an Optional[str]
Format(x) == IF x = None THEN "None" ELSE Str(x)

\* s.endswith(suffix)
EndsWith(s, suffix) ==
  /\ Len(s) >= Len(suffix)
  /\ SubSeq(s, Len(s) - Len(suffix) + 1, Len(s)) = suffix

\* s.startswith(prefix)
StartsWith(s, prefix) ==
  /\ Len(s) >= Len(prefix)
  /\ SubSeq(s, 1, Len(prefix)) = prefix

\* ord(c) for the characters of version strings
Ord(c) ==
  CASE c = "." -> 46
    [] c = "0" -> 48 [] c = "1" -> 49 [] c = "2" -> 50 [] c = "3" -> 51
    [] c = "4" -> 52 [] c = "5" -> 53 [] c = "6" -> 54 [] c = "7" -> 55
    [] c = "8" -> 56 [] c = "9" -> 57

RECURSIVE StrGreater(_, _)
\* a > b on Python str: lexicographic by code point, a proper prefix is smaller
StrGreater(a, b) ==
  IF a = <<>> THEN FALSE
  ELSE IF b = <<>> THEN TRUE
  ELSE IF Head(a) /= Head(b) THEN Ord(Head(a)) > Ord(Head(b))
  ELSE StrGreater(Tail(a), Tail(b))

Whitespace == {" ", "\n", "\t"}

RECURSIVE LStrip(_)
LStrip(s) == IF s /= <<>> /\ Head(s) \in Whitespace THEN LStrip(Tail(s)) ELSE s

RECURSIVE RStrip(_)
RStrip(s) ==
  IF s /= <<>> /\ s[Len(s)] \in Whitespace
  THEN RStrip(SubSeq(s, 1, Len(s) - 1))
  ELSE s

\* s.strip()
Strip(s) == RStrip(LStrip(s))

-----------------------------------------------------------------------------
(* os.path *)

Sep == "/"

\* os.path.join(a, b) for a relative b
Join(a, b) == a \o <<Sep>> \o b

Join3(a, b, c) == Join(Join(a, b), c)

RECURSIVE Basename(_)
\* os.path.basename(p): the text after the last separator
Basename(p) ==
  IF \E i \in 1..Len(p) : p[i] = Sep
  THEN Basename(Tail(p))
  ELSE p

\* p is d or lies inside the tree rooted at d
Under(p, d) == p = d \/ StartsWith(p, d \o <<Sep>>)

\* the directories above p
Ancestors(p) == {SubSeq(p, 1, i - 1) : i \in {j \in 2..Len(p) : p[j] = Sep}}

\* os.path.exists(p)
Exists(f, p) == p \in DOMAIN f

\* os.path.isdir(p)
IsDir(f, p) == Exists(f, p) /\ f[p].kind = "dir"

IsFile(f, p) == Exists(f, p) /\ f[p].kind = "file"

DirNode == [kind |-> "dir", data |-> <<>>]

FileNode(lines) == [kind |-> "file", data |-> lines]

\* f restricted to the paths in S
Restrict(f, S) == [p \in S |-> f[p]]

\* the tree rooted at d, as it is in f
Tree(f, d) == Restrict(f, {p \in DOMAIN f : Under(p, d)})

-----------------------------------------------------------------------------
(* exceptions and the results of file operations *)

NoExc == [type |-> "none", msg |-> "", path |-> <<>>]

Raise(t, p) == [type |-> t, msg |-> "", path |-> p]

\* click.ClickException(f"{msg}{p}")
ClickException(msg, p) == [type |-> "ClickException", msg |-> msg \o Str(p), path |-> p]

\* the result slot of a call that has not returned yet
Pending == [type |-> "pending", msg |-> "", path |-> <<>>]

Ok(f) == [ok |-> TRUE, fs |-> f, err |-> NoExc]

Err(f, t, p) == [ok |-> FALSE, fs |-> f, err |-> Raise(t, p)]

-----------------------------------------------------------------------------
(* shutil and os on the modelled file system *)

\* shutil.rmtree(p): removes the directory p and everything inside it
RmTree(f, p) ==
  IF ~Exists(f, p) THEN Err(f, "FileNotFoundError", p)
  ELSE IF ~IsDir(f, p) THEN Err(f, "NotADirectoryError", p)
  ELSE Ok(Restrict(f, {q \in DOMAIN f : ~Under(q, p)}))

\* os.makedirs(p, exist_ok=True): p and every missing directory above it
MakeDirs(f, p) ==
  IF \E q \in Ancestors(p) \cup {p} : IsFile(f, q)
  THEN Err(f, "FileExistsError", p)
  ELSE Ok([q \in DOMAIN f \cup Ancestors(p) \cup {p} |->
             IF q \in DOMAIN f THEN f[q] ELSE DirNode])

\* the directory holding p ("" for a path without separator: the working directory)
Parent(p) == IF Ancestors(p) = {} THEN <<>>
             ELSE CHOOSE a \in Ancestors(p) : \A b \in Ancestors(p) : Len(b) <= Len(a)

\* shutil.move in place of shutil.copy2: the source file is gone afterwards
Copy2Moves(f, src, dst) ==
  IF ~IsFile(f, src) THEN Err(f, "FileNotFoundError", src)
  ELSE Ok([q \in (DOMAIN f \cup {dst}) \ {src} |-> IF q = dst THEN f[src] ELSE f[q]])

\* shutil.copy2(src, dst): dst becomes a copy of the file src
Copy2(f, src, dst) ==
  LET target == IF IsDir(f, dst) THEN Join(dst, Basename(src)) ELSE dst IN
  IF ~Exists(f, src) THEN Err(f, "FileNotFoundError", src)
  ELSE IF IsDir(f, src) THEN Err(f, "IsADirectoryError", src)
  ELSE IF target = src THEN Err(f, "SameFileError", src)
  ELSE IF Parent(target) /= <<>> /\ ~IsDir(f, Parent(target))
  THEN Err(f, "FileNotFoundError", target)
  ELSE IF IsDir(f, target) THEN Err(f, "IsADirectoryError", target)
  ELSE Ok([q \in DOMAIN f \cup {target} |-> IF q = target THEN f[src] ELSE f[q]])

\* the image under dst of a path q inside src
Rebase(q, src, dst) == dst \o SubSeq(q, Len(src) + 1, Len(q))

\* shutil.copytree(src, dst): dst must not exist; it is created with the
\* directories above it and receives a copy of everything inside src
CopyTree(f, src, dst) ==
  IF ~Exists(f, src) THEN Err(f, "FileNotFoundError", src)
  ELSE IF ~IsDir(f, src) THEN Err(f, "NotADirectoryError", src)
  ELSE IF Exists(f, dst) THEN Err(f, "FileExistsError", dst)
  ELSE IF \E q \in Ancestors(dst) : IsFile(f, q)
  THEN Err(f, "NotADirectoryError", dst)
  ELSE LET inside == {q \in DOMAIN f : Under(q, src)}
           made   == Ancestors(dst) \cup {Rebase(q, src, dst) : q \in inside}
           from(t) == CHOOSE q \in inside : Rebase(q, src, dst) = t
       IN Ok([t \in DOMAIN f \cup made |->
                IF t \in {Rebase(q, src, dst) : q \in inside} THEN f[from(t)]
                ELSE IF t \in DOMAIN f THEN f[t]
                ELSE DirNode])

\* open(p, 'w').write(lines)
WriteFile(f, p, lines) ==
  IF IsDir(f, p) THEN Err(f, "IsADirectoryError", p)
  ELSE IF Parent(p) /= <<>> /\ ~IsDir(f, Parent(p))
  THEN Err(f, "FileNotFoundError", p)
  ELSE Ok([q \in DOMAIN f \cup {p} |-> IF q = p THEN FileNode(lines) ELSE f[q]])

-----------------------------------------------------------------------------
(* the paths and strings of the modelled environment *)

WorkDir    == <<"w">>
TempFolder == <<"w", "/", "t">>
SourceDir  == <<"s">>
WheelFile  == <<"a", ".", "w", "h", "l">>
TextFile   == <<"a", ".", "t", "x", "t">>
NoWheel    == <<"m", ".", "w", "h", "l">>
NoDir      == <<"n">>
ExtraReqs  == <<"r", ".", "t", "x", "t">>
NoReqs     == <<"x", ".", "t", "x", "t">>
EnvFile    == <<"e", ".", "e", "n", "v">>
AppName    == <<"a", "p", "p">>
AdkApp     == <<"a", "d", "k", "_", "a", "p", "p">>
Agents     == <<"a", "g", "e", "n", "t", "s">>
ReqsTxt    == <<"r", "e", "q", "u", "i", "r", "e", "m", "e", "n", "t", "s", ".", "t", "x", "t">>
ExtraTxt   == <<"e", "x", "t", "r", "a", "-">> \o ReqsTxt
Dockerfile == <<"D", "o", "c", "k", "e", "r", "f", "i", "l", "e">>
DotEnv     == <<".", "e", "n", "v">>
DotPy      == <<".", "p", "y">>
DotWhl     == <<".", "w", "h", "l">>
AgentPy    == <<"a", "g", "e", "n", "t">> \o DotPy
OldFile    == <<"o", "l", "d">>
SubPackage == <<"s", "u", "b">>
Project1   == <<"p", "1">>
Region1    == <<"r", "1">>
Service    == <<"s", "v", "c">>
Threshold  == <<"0", ".", "5", ".", "0">>

\* the number of modules in the source tree's sub-package
MaxModules == 1

\* the i-th module of the sub-package
Module(i) == Join3(SourceDir, SubPackage, <<"m", ToString(i)>> \o DotPy)

\* the files every environment holds
BaseFiles ==
  (WheelFile :> FileNode(<<"wheel">>)) @@
  (TextFile :> FileNode(<<"text">>)) @@
  (ExtraReqs :> FileNode(<<"extra">>)) @@
  (EnvFile :> FileNode(<<"KEY=1">>)) @@
  (SourceDir :> DirNode) @@
  (Join(SourceDir, AgentPy) :> FileNode(<<"root_agent">>)) @@
  (Join(SourceDir, SubPackage) :> DirNode) @@
  [p \in {Module(i) : i \in 1..MaxModules} |-> FileNode(<<"module", Str(Basename(p))>>)]

\* the source tree's own requirements.txt
SourceReqs == (Join(SourceDir, ReqsTxt) :> FileNode(<<"deps">>))

\* what may sit at the staging path before a call: nothing, not even the
\* directory above it; nothing; a regular file; an empty directory; or a tree
\* left by an earlier run
TempStates ==
  { <<>>,
    (WorkDir :> DirNode),
    (WorkDir :> DirNode) @@ (TempFolder :> FileNode(<<"stale">>)),
    (WorkDir :> DirNode) @@ (TempFolder :> DirNode),
    (WorkDir :> DirNode) @@ (TempFolder :> DirNode) @@
    (Join(TempFolder, OldFile) :> FileNode(<<"stale">>)) @@
    (Join(TempFolder, WheelFile) :> FileNode(<<"stale wheel">>)) @@
    (Join(TempFolder, Agents) :> DirNode) @@
    (Join3(TempFolder, Agents, AppName) :> DirNode) @@
    (Join(Join3(TempFolder, Agents, AppName), ReqsTxt) :> FileNode(<<"stale">>)) }

Environments ==
  {BaseFiles @@ t : t \in TempStates} \cup
  {BaseFiles @@ SourceReqs @@ t : t \in TempStates}

\* what `gcloud config get-value project` prints: a project, or nothing when unset
GcloudOutputs == {<<"p", "2", "\n">>, <<>>}

Versions ==
  { <<"0", ".", "4", ".", "9">>, Threshold, <<"0", ".", "5", ".", "1">>,
    <<"0", ".", "1", "0", ".", "0">> }

\* the path arguments of to_cloud_run
PathArguments ==
  [ agent_whl_file : {WheelFile, TextFile, NoWheel, Join(TempFolder, WheelFile)},
    agent_source_dir : {SourceDir, NoDir, TextFile, TempFolder},
    additional_requirements : {None, ExtraReqs, NoReqs} ]

\* the path arguments that name the wheel and the source tree of BaseFiles
GoodPaths == {a \in PathArguments : a.agent_whl_file = WheelFile
                                    /\ a.agent_source_dir = SourceDir}

\* the remaining arguments of to_cloud_run
DefaultOptions ==
  [ project |-> Project1, region |-> Region1, with_ui |-> FALSE,
    adk_version |-> <<"0", ".", "5", ".", "1">> ]

OptionArguments ==
  {[DefaultOptions EXCEPT !.project = p, !.region = g] :
     p \in {None, <<>>, Project1}, g \in {None, Region1}} \cup
  {[DefaultOptions EXCEPT !.adk_version = v, !.with_ui = u] :
     v \in Versions, u \in BOOLEAN}

CloudRunRequest(a, o) ==
  [ fn |-> "to_cloud_run",
    agent_whl_file |-> a.agent_whl_file,
    agent_source_dir |-> a.agent_source_dir,
    project |-> o.project,
    region |-> o.region,
    service_name |-> Service,
    app_name |-> AppName,
    temp_folder |-> TempFolder,
    port |-> 8080,
    trace_to_cloud |-> FALSE,
    with_ui |-> o.with_ui,
    verbosity |-> "info",
    session_db_url |-> <<>>,
    adk_version |-> o.adk_version,
    additional_requirements |-> a.additional_requirements ]

\* keyword arguments of to_cloud_run: every combination of path arguments with
\* the default options, and every option with the well-formed paths
CloudRunRequests ==
  {CloudRunRequest(a, DefaultOptions) : a \in PathArguments} \cup
  {CloudRunRequest(a, o) : a \in GoodPaths, o \in OptionArguments}

\* keyword arguments of to_agent_engine
AgentEngineRequests ==
  [ fn : {"to_agent_engine"},
    agent_folder : {SourceDir, NoDir, TempFolder},
    temp_folder : {TempFolder},
    adk_app : {AdkApp},
    project : {None, Project1},
    region : {Region1},
    staging_bucket : {"gs://bucket"},
    trace_to_cloud : BOOLEAN,
    requirements_file : {None, ExtraReqs},
    env_file : {None, EnvFile} ]

-----------------------------------------------------------------------------
(* to_cloud_run: the values substituted into the Dockerfile *)

\* the dependency-install instruction for the source tree's requirements.txt
AgentDepsLine(app_name) ==
  "RUN pip install -r \"/app/agents/" \o Str(app_name) \o "/requirements.txt\""

\* install_agent_deps without the check for the staged requirements.txt
InstallAgentDepsAlways(f, r) == <<AgentDepsLine(r.app_name)>>

\* install_agent_deps: one instruction when requirements.txt was staged, else ''
InstallAgentDeps(f, r) ==
  IF Exists(f, Join(Join3(r.temp_folder, Agents, r.app_name), ReqsTxt))
  THEN <<AgentDepsLine(r.app_name)>>
  ELSE <<"">>

\* the two lines install_additional_deps holds once the extra file is staged
AdditionalDepsLines ==
  << "COPY \"extra-requirements.txt\" \"/app/extra-requirements.txt\"",
     "RUN pip install -r \"/app/extra-requirements.txt\"" >>

\* the condition under which the additional requirements are staged
WantsAdditional(f, r) ==
  Truthy(r.additional_requirements) /\ Exists(f, r.additional_requirements)

\* host_option gated on >= instead of >
HostOptionFromThreshold(adk_version) ==
  IF adk_version = Threshold \/ StrGreater(adk_version, Threshold)
  THEN "--host=0.0.0.0" ELSE ""

\* host_option
HostOption(adk_version) ==
  IF StrGreater(adk_version, Threshold) THEN "--host=0.0.0.0" ELSE ""

\* _DOCKERFILE_TEMPLATE.format(...), as the lines of the rendered text
RenderDockerfile(r, install_agent_deps, install_additional_deps) ==
  LET whl  == Str(Basename(r.agent_whl_file))
      app  == Str(r.app_name)
      port == ToString(r.port)
  IN
  << "",
     "FROM python:3.11-slim",
     "WORKDIR /app",
     "",
     "# Install git and clean up apt cache",
     "RUN apt-get update && apt-get install -y git && rm -rf /var/lib/apt/lists/*",
     "",
     "# Create a non-root user",
     "RUN adduser --disabled-password --gecos \"\" myuser",
     "",
     "# Change ownership of /app to myuser",
     "RUN chown -R myuser:myuser /app",
     "",
     "# Switch to the non-root user",
     "USER myuser",
     "",
     "# Set up environment variables - Start",
     "ENV PATH=\"/home/myuser/.local/bin:$PATH\"",
     "",
     "ENV GOOGLE_GENAI_USE_VERTEXAI=1",
     "ENV GOOGLE_CLOUD_PROJECT=" \o Format(r.project),
     "ENV GOOGLE_CLOUD_LOCATION=" \o Format(r.region),
     "",
     "# Set up environment variables - End",
     "",
     "# Install ADK - Start",
     "RUN pip install git+https://github.com/gabriel-pineda/adk-python.git@main",
     "# Install ADK - End",
     "",
     "# Install agent from wheel - Start",
     "COPY \"" \o whl \o "\" \"/app/" \o whl \o "\"",
     "RUN pip install \"/app/" \o whl \o "\"",
     "# Install agent from wheel - End",
     "",
     "# Copy agent source files - Start",
     "COPY \"agents/" \o app \o "/\" \"/app/agents/" \o app \o "/\"" >>
  \o install_agent_deps \o
  << "# Copy agent source files - End",
     "",
     "# Install additional dependencies - Start" >>
  \o install_additional_deps \o
  << "# Install additional dependencies - End",
     "",
     "EXPOSE " \o port,
     "",
     "CMD adk " \o (IF r.with_ui THEN "web" ELSE "api_server")
       \o " --port=" \o port
       \o " " \o HostOption(r.adk_version)
       \o " " \o (IF r.session_db_url /= <<>>
                  THEN "--session_db_url=" \o Str(r.session_db_url) ELSE "")
       \o " " \o (IF r.trace_to_cloud THEN "--trace_to_cloud" ELSE "")
       \o " \"/app/agents\"" >>

\* _resolve_project that asks gcloud whatever the caller passed
ResolveProjectIgnoresOption(project_in_option, stdout) == Strip(stdout)

\* _resolve_project: the given project when truthy, else what gcloud printed
ResolveProject(project_in_option, stdout) ==
  IF Truthy(project_in_option) THEN project_in_option ELSE Strip(stdout)

\* the argument list of `gcloud run deploy`
DeployArgs(r, project) ==
  [ tool |-> "gcloud run deploy",
    service |-> r.service_name,
    source |-> r.temp_folder,
    project |-> project,
    region |-> IF Truthy(r.region) THEN <<r.region>> ELSE <<>>,
    port |-> ToString(r.port),
    verbosity |-> r.verbosity,
    labels |-> "created-by=adk" ]

\* the validation without its check of the file extension
ValidationErrorNoSuffix(f, r) ==
  IF ~Exists(f, r.agent_whl_file)
  THEN ClickException("Agent wheel file not found: ", r.agent_whl_file)
  ELSE IF ~Exists(f, r.agent_source_dir)
  THEN ClickException("Agent source directory not found: ", r.agent_source_dir)
  ELSE IF ~IsDir(f, r.agent_source_dir)
  THEN ClickException("Agent source path is not a directory: ", r.agent_source_dir)
  ELSE NoExc

\* the first failing check of the input validation, NoExc when all pass
ValidationError(f, r) ==
  IF ~Exists(f, r.agent_whl_file)
  THEN ClickException("Agent wheel file not found: ", r.agent_whl_file)
  ELSE IF ~EndsWith(r.agent_whl_file, DotWhl)
  THEN ClickException("Expected a .whl file, got: ", r.agent_whl_file)
  ELSE IF ~Exists(f, r.agent_source_dir)
  THEN ClickException("Agent source directory not found: ", r.agent_source_dir)
  ELSE IF ~IsDir(f, r.agent_source_dir)
  THEN ClickException("Agent source path is not a directory: ", r.agent_source_dir)
  ELSE NoExc

-----------------------------------------------------------------------------
(* to_agent_engine *)

\* _AGENT_ENGINE_APP_TEMPLATE.format(trace_to_cloud_option=trace_to_cloud)
RenderAdkApp(trace_to_cloud) ==
  << "",
     "from agent import root_agent",
     "from vertexai.preview.reasoning_engines import AdkApp",
     "",
     "adk_app = AdkApp(",
     "  agent=root_agent,",
     "  enable_tracing=" \o (IF trace_to_cloud THEN "True" ELSE "False") \o ",",
     ")" >>

\* the requirements.txt written when the staged tree has none
DefaultRequirements == <<"google-cloud-aiplatform[adk,agent_engines]">>

\* the arguments of agent_engines.create
CreateArgs(r, l) ==
  [ tool |-> "agent_engines.create",
    project |-> l.project,
    module_name |-> r.adk_app,
    requirements |-> l.requirements_file,
    env_vars |-> l.env_vars,
    extra_packages |-> <<r.temp_folder>> ]

-----------------------------------------------------------------------------
(* the state machine *)

Init ==
  /\ fs \in Environments
  /\ gcloudOut \in GcloudOutputs
  /\ pc = "idle"
  /\ req = [fn |-> "none"]
  /\ loc = [fn |-> "none"]
  /\ exc = NoExc
  /\ result = Pending
  /\ deploys = <<>>
  /\ cleanups = 0
  /\ fs0 = fs

\* the local variables of a call at entry
InitLoc(r) ==
  IF r.fn = "to_cloud_run"
  THEN [ install_agent_deps |-> <<"">>,
         install_additional_deps |-> <<"">>,
         project |-> r.project ]
  ELSE [ project |-> r.project,
         requirements_file |-> r.requirements_file,
         env_file |-> r.env_file,
         env_vars |-> None ]

\* a caller invokes one of the two functions
Call ==
  /\ pc = "idle"
  /\ \E r \in CloudRunRequests \cup AgentEngineRequests :
       /\ req' = r
       /\ loc' = InitLoc(r)
       /\ pc' = IF r.fn = "to_cloud_run" THEN "cr_validate" ELSE "ae_remove"
  /\ exc' = NoExc
  /\ result' = Pending
  /\ deploys' = <<>>
  /\ cleanups' = 0
  /\ fs0' = fs
  /\ UNCHANGED <<fs, gcloudOut>>

\* a try block whose except handler removes the staging directory before the
\* finally block does so again
TryStepCleansOnError(r, next) ==
  IF r.ok
  THEN fs' = r.fs /\ pc' = next /\ exc' = NoExc /\ cleanups' = cleanups
  ELSE /\ fs' = RmTree(r.fs, req.temp_folder).fs
       /\ cleanups' = cleanups + 1
       /\ pc' = "finally"
       /\ exc' = r.err

\* a statement of the try block: on success go on, on failure enter finally
TryStep(r, next) ==
  /\ fs' = r.fs
  /\ cleanups' = cleanups
  /\ IF r.ok THEN pc' = next /\ exc' = NoExc
             ELSE pc' = "finally" /\ exc' = r.err

\* how the environment may make a file operation fail (disk full, no
\* permission): before it changed anything, or after it did its work (copy2
\* fails copying the metadata, copytree reports its errors at the end)
Faults == {"none", "early", "late"}

\* the outcome r of an operation on path p under a fault
MayFail(fault, r, p) ==
  CASE fault = "none" -> r
    [] fault = "early" -> Err(fs, "OSError", p)
    [] fault = "late" -> IF r.ok THEN Err(r.fs, "OSError", p) ELSE r

\* to_cloud_run, input validation
CR_Validate ==
  /\ pc = "cr_validate"
  /\ LET e == ValidationError(fs, req) IN
       IF e = NoExc
       THEN pc' = "cr_remove" /\ result' = result
       ELSE pc' = "done" /\ result' = e
  /\ UNCHANGED <<fs, gcloudOut, req, loc, exc, deploys, cleanups, fs0>>

\* to_cloud_run without the removal of an existing temp_folder
CR_KeepExisting ==
  /\ pc = "cr_remove"
  /\ pc' = "cr_makedirs"
  /\ UNCHANGED <<fs, gcloudOut, req, loc, exc, result, deploys, cleanups, fs0>>

\* to_cloud_run, "remove temp_folder if exists"
CR_RemoveExisting ==
  /\ pc = "cr_remove"
  /\ IF Exists(fs, req.temp_folder)
     THEN LET r == RmTree(fs, req.temp_folder) IN
            /\ fs' = r.fs
            /\ IF r.ok THEN pc' = "cr_makedirs" /\ result' = result
                       ELSE pc' = "done" /\ result' = r.err
     ELSE pc' = "cr_makedirs" /\ UNCHANGED <<fs, result>>
  /\ UNCHANGED <<gcloudOut, req, loc, exc, deploys, cleanups, fs0>>

\* to_cloud_run, os.makedirs(temp_folder, exist_ok=True)
CR_MakeDirs ==
  /\ pc = "cr_makedirs"
  /\ \E fault \in Faults :
       TryStep(MayFail(fault, MakeDirs(fs, req.temp_folder), req.temp_folder),
               "cr_copy_wheel")
  /\ UNCHANGED <<gcloudOut, req, loc, result, deploys, fs0>>

\* to_cloud_run, "copy agent wheel file"
CR_CopyWheel ==
  /\ pc = "cr_copy_wheel"
  /\ LET dest == Join(req.temp_folder, Basename(req.agent_whl_file)) IN
       \E fault \in Faults :
         TryStep(MayFail(fault, Copy2(fs, req.agent_whl_file, dest), dest),
                 "cr_copy_source")
  /\ UNCHANGED <<gcloudOut, req, loc, result, deploys, fs0>>

\* to_cloud_run, "copy agent source code" and the check for its requirements.txt
CR_CopySource ==
  /\ pc = "cr_copy_source"
  /\ LET agent_src_path == Join3(req.temp_folder, Agents, req.app_name) IN
       \E fault \in Faults :
         LET r == MayFail(fault, CopyTree(fs, req.agent_source_dir, agent_src_path),
                          agent_src_path) IN
           /\ TryStep(r, "cr_additional")
           /\ loc' = IF r.ok
                     THEN [loc EXCEPT !.install_agent_deps = InstallAgentDeps(r.fs, req)]
                     ELSE loc
  /\ UNCHANGED <<gcloudOut, req, result, deploys, fs0>>

\* the additional requirements recorded for installation but never copied
CR_AdditionalNoCopy ==
  /\ pc = "cr_additional"
  /\ pc' = "cr_dockerfile"
  /\ loc' = [loc EXCEPT !.install_additional_deps =
               IF WantsAdditional(fs, req) THEN AdditionalDepsLines ELSE <<"">>]
  /\ UNCHANGED <<fs, gcloudOut, req, exc, result, deploys, cleanups, fs0>>

\* to_cloud_run, "Handle additional requirements if provided"
CR_Additional ==
  /\ pc = "cr_additional"
  /\ IF WantsAdditional(fs, req)
     THEN LET dest == Join(req.temp_folder, ExtraTxt) IN
            \E fault \in Faults :
              LET r == MayFail(fault, Copy2(fs, req.additional_requirements, dest), dest) IN
                /\ TryStep(r, "cr_dockerfile")
                /\ loc' = IF r.ok
                          THEN [loc EXCEPT !.install_additional_deps = AdditionalDepsLines]
                          ELSE loc
     ELSE /\ pc' = "cr_dockerfile"
          /\ loc' = [loc EXCEPT !.install_additional_deps = <<"">>]
          /\ UNCHANGED <<fs, exc, cleanups>>
  /\ UNCHANGED <<gcloudOut, req, result, deploys, fs0>>

\* to_cloud_run, "create Dockerfile"
CR_WriteDockerfile ==
  /\ pc = "cr_dockerfile"
  /\ LET content == RenderDockerfile(req, loc.install_agent_deps,
                                     loc.install_additional_deps)
         path == Join(req.temp_folder, Dockerfile) IN
       \E fault \in Faults :
         TryStep(MayFail(fault, WriteFile(fs, path, content), path), "cr_resolve")
  /\ UNCHANGED <<gcloudOut, req, loc, result, deploys, fs0>>

\* to_cloud_run, project = _resolve_project(project)
CR_ResolveProject ==
  /\ pc = "cr_resolve"
  /\ \/ /\ loc' = [loc EXCEPT !.project = ResolveProject(loc.project, gcloudOut)]
        /\ pc' = "cr_deploy"
        /\ exc' = NoExc
     \/ \* gcloud config exits non-zero: check=True raises
        /\ ~Truthy(loc.project)
        /\ exc' = Raise("CalledProcessError", <<>>)
        /\ pc' = "finally"
        /\ loc' = loc
  /\ UNCHANGED <<fs, gcloudOut, req, result, deploys, cleanups, fs0>>

\* a deploy step that runs the command a second time when it fails
CR_DeployRetries ==
  /\ pc = "cr_deploy"
  /\ pc' = "finally"
  /\ \E failed \in BOOLEAN :
       /\ exc' = IF failed THEN Raise("CalledProcessError", <<>>) ELSE NoExc
       /\ deploys' = IF failed
                     THEN deploys \o <<DeployArgs(req, loc.project), DeployArgs(req, loc.project)>>
                     ELSE Append(deploys, DeployArgs(req, loc.project))
  /\ UNCHANGED <<fs, gcloudOut, req, loc, result, cleanups, fs0>>

\* to_cloud_run, subprocess.run(['gcloud', 'run', 'deploy', ...], check=True)
CR_Deploy ==
  /\ pc = "cr_deploy"
  /\ deploys' = Append(deploys, DeployArgs(req, loc.project))
  /\ pc' = "finally"
  /\ \E failed \in BOOLEAN :
       exc' = IF failed THEN Raise("CalledProcessError", <<>>) ELSE NoExc
  /\ UNCHANGED <<fs, gcloudOut, req, loc, result, cleanups, fs0>>

\* to_agent_engine, "remove temp_folder if it exists"
AE_RemoveExisting ==
  /\ pc = "ae_remove"
  /\ IF Exists(fs, req.temp_folder)
     THEN LET r == RmTree(fs, req.temp_folder) IN
            /\ fs' = r.fs
            /\ IF r.ok THEN pc' = "ae_copy" /\ result' = result
                       ELSE pc' = "done" /\ result' = r.err
     ELSE pc' = "ae_copy" /\ UNCHANGED <<fs, result>>
  /\ UNCHANGED <<gcloudOut, req, loc, exc, deploys, cleanups, fs0>>

\* to_agent_engine, shutil.copytree(agent_folder, temp_folder)
AE_CopySource ==
  /\ pc = "ae_copy"
  /\ \E fault \in Faults :
       TryStep(MayFail(fault, CopyTree(fs, req.agent_folder, req.temp_folder),
                       req.temp_folder),
               "ae_init")
  /\ UNCHANGED <<gcloudOut, req, loc, result, deploys, fs0>>

\* to_agent_engine, vertexai.init(project=_resolve_project(project), ...)
AE_InitVertex ==
  /\ pc = "ae_init"
  /\ \E failed \in BOOLEAN :
       IF failed
       THEN exc' = Raise("RuntimeError", <<>>) /\ pc' = "finally" /\ loc' = loc
       ELSE /\ exc' = NoExc
            /\ pc' = "ae_files"
            /\ loc' = [loc EXCEPT !.project = ResolveProject(loc.project, gcloudOut)]
  /\ UNCHANGED <<fs, gcloudOut, req, result, deploys, cleanups, fs0>>

\* to_agent_engine, "Resolving files and dependencies": requirements and .env
AE_ResolveFiles ==
  /\ pc = "ae_files"
  /\ LET requirements_txt_path == Join(req.temp_folder, ReqsTxt)
         create == ~Truthy(loc.requirements_file) /\ ~Exists(fs, requirements_txt_path)
         env_file == IF Truthy(loc.env_file) THEN loc.env_file
                     ELSE Join(req.temp_folder, DotEnv)
     IN \E fault \in Faults :
          LET r == IF create
                   THEN MayFail(fault,
                                WriteFile(fs, requirements_txt_path, DefaultRequirements),
                                requirements_txt_path)
                   ELSE Ok(fs) IN
            /\ TryStep(r, "ae_write_app")
            /\ loc' = IF r.ok
                      THEN [ project |-> loc.project,
                             requirements_file |->
                               IF Truthy(loc.requirements_file) THEN loc.requirements_file
                               ELSE requirements_txt_path,
                             env_file |-> env_file,
                             env_vars |-> IF Exists(r.fs, env_file)
                                          THEN r.fs[env_file].data ELSE None ]
                      ELSE loc
  /\ UNCHANGED <<gcloudOut, req, result, deploys, fs0>>

\* to_agent_engine, writing <adk_app>.py
AE_WriteApp ==
  /\ pc = "ae_write_app"
  /\ LET path == Join(req.temp_folder, req.adk_app \o DotPy) IN
       \E fault \in Faults :
         TryStep(MayFail(fault, WriteFile(fs, path, RenderAdkApp(req.trace_to_cloud)), path),
                 "ae_create")
  /\ UNCHANGED <<gcloudOut, req, loc, result, deploys, fs0>>

\* to_agent_engine, agent_engines.ModuleAgent(...) and agent_engines.create(...)
AE_Create ==
  /\ pc = "ae_create"
  /\ deploys' = Append(deploys, CreateArgs(req, loc))
  /\ pc' = "finally"
  /\ \E failed \in BOOLEAN :
       exc' = IF failed THEN Raise("RuntimeError", <<>>) ELSE NoExc
  /\ UNCHANGED <<fs, gcloudOut, req, loc, result, cleanups, fs0>>

\* the positions inside the try block and its finally
InTry ==
  { "cr_makedirs", "cr_copy_wheel", "cr_copy_source", "cr_additional", "cr_dockerfile",
    "cr_resolve", "cr_deploy", "ae_copy", "ae_init", "ae_files", "ae_write_app",
    "ae_create", "finally" }

\* the process is killed: nothing more runs, the files stay as they are
Interrupt ==
  /\ pc \in InTry
  /\ pc' = "idle"
  /\ req' = [fn |-> "none"]
  /\ loc' = [fn |-> "none"]
  /\ exc' = NoExc
  /\ result' = Pending
  /\ deploys' = <<>>
  /\ cleanups' = 0
  /\ fs0' = fs
  /\ UNCHANGED <<fs, gcloudOut>>

\* cleanup written after the last statement instead of in a finally block:
\* an exception in flight skips it
CleanupOnlyOnSuccess ==
  /\ pc = "finally"
  /\ IF exc = NoExc
     THEN /\ cleanups' = cleanups + 1
          /\ LET r == RmTree(fs, req.temp_folder) IN
               fs' = r.fs /\ result' = IF r.ok THEN exc ELSE r.err
     ELSE /\ cleanups' = cleanups
          /\ fs' = fs
          /\ result' = exc
  /\ exc' = NoExc
  /\ pc' = "done"
  /\ UNCHANGED <<gcloudOut, req, loc, deploys, fs0>>

\* the finally block of either function: shutil.rmtree(temp_folder); an
\* exception it raises replaces the one in flight
Finally ==
  /\ pc = "finally"
  /\ cleanups' = cleanups + 1
  /\ LET r == RmTree(fs, req.temp_folder) IN
       /\ fs' = r.fs
       /\ result' = IF r.ok THEN exc ELSE r.err
  /\ exc' = NoExc
  /\ pc' = "done"
  /\ UNCHANGED <<gcloudOut, req, loc, deploys, fs0>>

\* the caller has the outcome in hand; the process is ready for another call
Return ==
  /\ pc = "done"
  /\ pc' = "idle"
  /\ req' = [fn |-> "none"]
  /\ loc' = [fn |-> "none"]
  /\ result' = Pending
  /\ deploys' = <<>>
  /\ cleanups' = 0
  /\ fs0' = fs
  /\ UNCHANGED <<fs, gcloudOut, exc>>

Next ==
  \/ Call
  \/ Return
  \/ CR_Validate
  \/ CR_RemoveExisting
  \/ CR_MakeDirs
  \/ CR_CopyWheel
  \/ CR_CopySource
  \/ CR_Additional
  \/ CR_WriteDockerfile
  \/ CR_ResolveProject
  \/ CR_Deploy
  \/ AE_RemoveExisting
  \/ AE_CopySource
  \/ AE_InitVertex
  \/ AE_ResolveFiles
  \/ AE_WriteApp
  \/ AE_Create
  \/ Finally
  \/ Interrupt

Spec == Init /\ [][Next]_vars

-----------------------------------------------------------------------------
(* vocabulary of the properties *)

IsCloudRun == req.fn = "to_cloud_run"

IsAgentEngine == req.fn = "to_agent_engine"

InCall == req.fn /= "none"

Returned == InCall /\ pc = "done"

\* the wheel argument is unusable: missing, or not named *.whl
BadWheel(f, r) == ~Exists(f, r.agent_whl_file) \/ ~EndsWith(r.agent_whl_file, DotWhl)

\* the source argument is unusable: missing, or not a directory
BadSource(f, r) == ~Exists(f, r.agent_source_dir) \/ ~IsDir(f, r.agent_source_dir)

\* the inputs of the running call pass validation (to_agent_engine validates nothing)
InputsValid == IsAgentEngine \/ (IsCloudRun /\ ~BadWheel(fs0, req) /\ ~BadSource(fs0, req))

\* the running call got as far as its try block: its inputs are valid and the
\* removal of an existing staging path did not raise
EnteredPipeline ==
  InputsValid /\ (Exists(fs0, req.temp_folder) => IsDir(fs0, req.temp_folder))

\* a step after validation failed and the failure reached the caller
FailedInPipeline == Returned /\ EnteredPipeline /\ result.type /= "none"

-----------------------------------------------------------------------------
(* C1 *)

-----------------------------------------------------------------------------
(* C2 *)

\* the paths a ClickException may name for the running to_cloud_run call
OffendingPaths ==
  (IF BadWheel(fs0, req) THEN {req.agent_whl_file} ELSE {}) \cup
  (IF BadSource(fs0, req) THEN {req.agent_source_dir} ELSE {})

\* C2: a to_cloud_run call with a missing or non-.whl artifact, or a missing or
\* non-directory source, never changes the file system (so creates and removes no
\* staging directory), never invokes the deploy command, never runs the cleanup,
\* and returns a ClickException whose message names an offending path
C2_ValidationBeforeMutation ==
  (IsCloudRun /\ (BadWheel(fs0, req) \/ BadSource(fs0, req))) =>
    /\ fs = fs0
    /\ deploys = <<>>
    /\ cleanups = 0
    /\ pc \in {"cr_validate", "done"}
    /\ pc = "done" =>
         /\ result.type = "ClickException"
         /\ result.path \in OffendingPaths
         /\ result.msg \in
              { "Agent wheel file not found: " \o Str(result.path),
                "Expected a .whl file, got: " \o Str(result.path),
                "Agent source directory not found: " \o Str(result.path),
                "Agent source path is not a directory: " \o Str(result.path) }

\* a call with an existing artifact of the wrong extension returned its
\* ClickException while a stale staging directory stayed in place
C2_Witness ==
  /\ Returned /\ IsCloudRun
  /\ req.agent_whl_file = TextFile
  /\ result.type = "ClickException" /\ result.path = TextFile
  /\ Exists(fs, Join(req.temp_folder, OldFile))

-----------------------------------------------------------------------------
(* C3 *)

\* C3 as stated: every call that returned ran the cleanup exactly once
C3_Original == Returned => cleanups = 1

\* C3 amended: the cleanup never runs twice, and a call that returned ran it
\* exactly once if it entered the try block (whatever failed inside) and not at
\* all if validation failed or the removal of an existing staging path raised
C3_CleanupOncePerPipeline ==
  /\ cleanups <= 1
  /\ Returned => cleanups = (IF EnteredPipeline THEN 1 ELSE 0)

\* a call whose copy step failed returned after exactly one cleanup
C3_Witness ==
  /\ FailedInPipeline /\ cleanups = 1 /\ deploys = <<>>
  /\ result.type \in {"OSError", "FileNotFoundError"}

-----------------------------------------------------------------------------
(* C4 *)

\* the staged files of to_cloud_run
StagedWheel == Join(req.temp_folder, Basename(req.agent_whl_file))

StagedSource == Join3(req.temp_folder, Agents, req.app_name)

StagedExtra == Join(req.temp_folder, ExtraTxt)

StagedDockerfile == Join(req.temp_folder, Dockerfile)

\* the deploy command has just been invoked by the running to_cloud_run call
JustDeployed == IsCloudRun /\ pc = "finally" /\ deploys /= <<>>

\* C4: to_cloud_run invokes `gcloud run deploy` at most once, on the staging
\* directory and with wheel, source tree and Dockerfile staged; when the command
\* fails the call returns that very failure, without a second invocation, and
\* the staging directory is gone by then
C4_DeployOnceThenCleanup ==
  /\ [](IsCloudRun => Len(deploys) <= 1)
  /\ [](JustDeployed =>
          /\ deploys[1].source = req.temp_folder
          /\ IsFile(fs, StagedWheel)
          /\ IsDir(fs, StagedSource)
          /\ IsFile(fs, StagedDockerfile)
          /\ fs[StagedDockerfile].data =
               RenderDockerfile(req, loc.install_agent_deps, loc.install_additional_deps))
  /\ [][(JustDeployed /\ exc.type = "CalledProcessError" /\ pc' = "done") =>
          /\ result' = exc
          /\ deploys' = deploys
          /\ ~Exists(fs', req.temp_folder)]_vars

\* a call whose deploy command failed has returned the failure
C4_Witness ==
  /\ Returned /\ IsCloudRun /\ Len(deploys) = 1
  /\ result.type = "CalledProcessError"
  /\ ~Exists(fs, req.temp_folder)

-----------------------------------------------------------------------------
(* C5 *)

\* the input paths the running call was given
InputPaths ==
  IF IsCloudRun
  THEN {req.agent_whl_file, req.agent_source_dir} \cup
       (IF Truthy(req.additional_requirements) THEN {req.additional_requirements} ELSE {})
  ELSE {req.agent_folder} \cup
       (IF Truthy(req.requirements_file) THEN {req.requirements_file} ELSE {}) \cup
       (IF Truthy(req.env_file) THEN {req.env_file} ELSE {})

\* f without the staging directory
OutsideStaging(f) == Restrict(f, {p \in DOMAIN f : ~Under(p, req.temp_folder)})

\* p neither lies at or inside the staging path nor contains it
ApartFromStaging(p) == ~Under(p, req.temp_folder) /\ ~Under(req.temp_folder, p)

\* C5 as stated: after every call everything outside the staging directory is
\* as it was, and each input that existed exists unchanged
C5_Original ==
  Returned =>
    /\ OutsideStaging(fs) = OutsideStaging(fs0)
    /\ \A p \in InputPaths : Exists(fs0, p) => Tree(fs, p) = Tree(fs0, p)

\* C5 amended: at every point of a call everything that existed outside the
\* staging directory is as it was when the call started, and the only new path
\* outside it is a directory above it that was missing; so every input that
\* lies apart from the staging path exists with unchanged contents
C5_MutationsConfined ==
  InCall =>
    /\ \A p \in DOMAIN fs0 : ~Under(p, req.temp_folder) => Exists(fs, p) /\ fs[p] = fs0[p]
    /\ \A p \in DOMAIN fs \ DOMAIN fs0 :
         Under(p, req.temp_folder) \/ (p \in Ancestors(req.temp_folder) /\ fs[p] = DirNode)
    /\ \A p \in InputPaths :
         (Exists(fs0, p) /\ ApartFromStaging(p)) => Tree(fs, p) = Tree(fs0, p)

\* a failed call that had copied wheel, source tree and extra requirements
\* returned, all three inputs are as before, and the directory above the staging
\* path, missing before, is there
C5_Witness ==
  /\ FailedInPipeline /\ IsCloudRun /\ deploys /= <<>>
  /\ req.additional_requirements = ExtraReqs
  /\ \A p \in InputPaths : ApartFromStaging(p) /\ Exists(fs, p)
  /\ ~Exists(fs0, WorkDir) /\ IsDir(fs, WorkDir)

-----------------------------------------------------------------------------
(* C6 *)

\* the paths the running to_cloud_run call is to have staged from the current files
CloudRunStaged ==
  {req.temp_folder, StagedWheel, Join(req.temp_folder, Agents), StagedDockerfile} \cup
  {Rebase(q, req.agent_source_dir, StagedSource) :
     q \in {q \in DOMAIN fs : Under(q, req.agent_source_dir)}} \cup
  (IF Truthy(req.additional_requirements) /\ Exists(fs, req.additional_requirements)
   THEN {StagedExtra} ELSE {})

\* the paths the running to_agent_engine call is to have staged
AgentEngineStaged ==
  {Rebase(q, req.agent_folder, req.temp_folder) :
     q \in {q \in DOMAIN fs : Under(q, req.agent_folder)}} \cup
  (IF Truthy(req.requirements_file) THEN {} ELSE {Join(req.temp_folder, ReqsTxt)}) \cup
  {Join(req.temp_folder, req.adk_app \o DotPy)}

\* C6: once the removal step of a call is over nothing is left at the staging
\* path, and the staging directory handed to the external deploy step holds
\* exactly the files this call staged (for inputs apart from the staging path),
\* none of them a file of an earlier run
C6_NoStaleFilesStaged ==
  /\ (InCall /\ pc \in {"cr_makedirs", "ae_copy"}) =>
       \A p \in DOMAIN fs : ~Under(p, req.temp_folder)
  /\ (IsCloudRun /\ pc = "cr_deploy" /\ \A p \in InputPaths : ApartFromStaging(p)) =>
       /\ DOMAIN Tree(fs, req.temp_folder) = CloudRunStaged
       /\ fs[StagedWheel] = fs[req.agent_whl_file]
       /\ \A q \in DOMAIN fs : Under(q, req.agent_source_dir) =>
            fs[Rebase(q, req.agent_source_dir, StagedSource)] = fs[q]
       /\ Exists(fs, StagedExtra) => fs[StagedExtra] = fs[req.additional_requirements]
  /\ (IsAgentEngine /\ pc = "ae_create" /\ \A p \in InputPaths : ApartFromStaging(p)) =>
       /\ DOMAIN Tree(fs, req.temp_folder) = AgentEngineStaged
       /\ \A q \in DOMAIN fs : Under(q, req.agent_folder) =>
            fs[Rebase(q, req.agent_folder, req.temp_folder)] = fs[q]

\* a call that found files of an earlier run in the staging directory is about
\* to hand a staging directory without them to the deploy command
C6_Witness ==
  /\ IsCloudRun /\ pc = "cr_deploy"
  /\ Exists(fs0, Join(req.temp_folder, OldFile))
  /\ fs0[Join(StagedSource, ReqsTxt)].data = <<"stale">>
  /\ ~Exists(fs, Join(req.temp_folder, OldFile))
  /\ ~Exists(fs, Join(StagedSource, ReqsTxt))

-----------------------------------------------------------------------------
(* C7 *)

\* the running to_cloud_run call has just written its Dockerfile
DockerfileWritten == IsCloudRun /\ pc = "cr_resolve"

\* the lines of the Dockerfile in the staging directory
DockerfileLines == fs[StagedDockerfile].data

\* the positions of a line in the Dockerfile
Positions(line) == {i \in 1..Len(DockerfileLines) : DockerfileLines[i] = line}

\* the instruction that installs the staged source tree's requirements.txt
SourceInstall == "RUN pip install -r \"/app/agents/app/requirements.txt\""

\* C7: the Dockerfile to_cloud_run writes holds exactly one instruction
\* installing /app/agents/<app_name>/requirements.txt, right after the COPY of the
\* source tree, when the source tree holds a requirements.txt, and none otherwise
C7_SourceRequirementsInstalledOnce ==
  DockerfileWritten =>
    IF Exists(fs, Join(req.agent_source_dir, ReqsTxt))
    THEN /\ Cardinality(Positions(SourceInstall)) = 1
         /\ \A i \in Positions(SourceInstall) :
              DockerfileLines[i - 1] = "COPY \"agents/app/\" \"/app/agents/app/\""
    ELSE Positions(SourceInstall) = {}

\* a Dockerfile was written for a source tree with a requirements.txt
C7_Witness ==
  /\ DockerfileWritten
  /\ Exists(fs, Join(req.agent_source_dir, ReqsTxt))
  /\ Exists(fs, Join(StagedSource, ReqsTxt))
  /\ Cardinality(Positions(SourceInstall)) = 1

-----------------------------------------------------------------------------
(* C8 *)

ExtraCopy == "COPY \"extra-requirements.txt\" \"/app/extra-requirements.txt\""

ExtraInstall == "RUN pip install -r \"/app/extra-requirements.txt\""

\* C8: when additional_requirements is given and exists, the Dockerfile
\* to_cloud_run writes comes with a copy of that file in the staging directory
\* and holds, once each and in this order, the install instruction of the source
\* tree (if it has a requirements.txt), the COPY of the additional file and its
\* install instruction; otherwise no file is copied and neither line is rendered
C8_AdditionalRequirementsStaged ==
  DockerfileWritten =>
    IF Truthy(req.additional_requirements) /\ Exists(fs0, req.additional_requirements)
    THEN /\ IsFile(fs, StagedExtra)
         /\ fs[StagedExtra] = fs0[req.additional_requirements]
         /\ Cardinality(Positions(ExtraCopy)) = 1
         /\ Cardinality(Positions(ExtraInstall)) = 1
         /\ \A i \in Positions(ExtraCopy) :
              /\ DockerfileLines[i + 1] = ExtraInstall
              /\ \A j \in Positions(SourceInstall) : j < i
         /\ Exists(fs, Join(req.agent_source_dir, ReqsTxt)) => Positions(SourceInstall) /= {}
    ELSE /\ ~Exists(fs, StagedExtra)
         /\ Positions(ExtraCopy) = {}
         /\ Positions(ExtraInstall) = {}

\* a Dockerfile was written with both install instructions
C8_Witness ==
  /\ DockerfileWritten
  /\ req.additional_requirements = ExtraReqs
  /\ IsFile(fs, StagedExtra)
  /\ Positions(SourceInstall) /= {}
  /\ Positions(ExtraInstall) /= {}

-----------------------------------------------------------------------------
(* C9 *)

\* the startup command of the Dockerfile
CmdLine == DockerfileLines[Len(DockerfileLines)]

\* the startup command with and without the bind-to-all-interfaces option
CmdWithHost ==
  "CMD adk " \o (IF req.with_ui THEN "web" ELSE "api_server")
    \o " --port=8080 --host=0.0.0.0   \"/app/agents\""

CmdWithoutHost ==
  "CMD adk " \o (IF req.with_ui THEN "web" ELSE "api_server")
    \o " --port=8080    \"/app/agents\""

\* C9 as stated: for adk_version '0.4.9' the option is emitted
C9_Original ==
  (DockerfileWritten /\ req.adk_version = <<"0", ".", "4", ".", "9">>) =>
    CmdLine = CmdWithHost

\* C9 amended: the option is emitted exactly when adk_version is greater than
\* '0.5.0' as a string: not for '0.4.9', not for '0.5.0', not for '0.10.0' (whose
\* third character '1' is below '5'), and for '0.5.1'
C9_HostOptionLexicographic ==
  DockerfileWritten =>
    CmdLine = (IF req.adk_version = <<"0", ".", "5", ".", "1">>
               THEN CmdWithHost ELSE CmdWithoutHost)

\* Dockerfiles were written for '0.4.9' without the option
C9_Witness ==
  /\ DockerfileWritten
  /\ req.adk_version = <<"0", ".", "4", ".", "9">>
  /\ CmdLine = CmdWithoutHost

-----------------------------------------------------------------------------
(* C10 *)

\* the project the Dockerfile sets and the project given to `gcloud run deploy`
DockerfileProjectLine == DockerfileLines[21]

ForwardedProject == deploys[1].project

\* C10 as stated: the Dockerfile holds the caller's project, which is the
\* forwarded project if and only if the caller supplied a non-empty one
C10_Original ==
  JustDeployed =>
    /\ DockerfileProjectLine = "ENV GOOGLE_CLOUD_PROJECT=" \o Format(req.project)
    /\ (Format(req.project) = Str(ForwardedProject)) <=> Truthy(req.project)

\* C10 amended: the project is resolved only after the Dockerfile is written, so
\* the Dockerfile holds the caller's value as formatted ('None' for None); the
\* forwarded project is the caller's value when non-empty and else gcloud's
\* stripped output; the two agree when the caller supplied a non-empty project
\* and otherwise only when gcloud's stripped output equals the formatted value
C10_ProjectResolvedAfterRender ==
  /\ (IsCloudRun /\ pc \in {"cr_dockerfile", "cr_resolve"}) => loc.project = req.project
  /\ JustDeployed =>
       /\ DockerfileProjectLine = "ENV GOOGLE_CLOUD_PROJECT=" \o Format(req.project)
       /\ ForwardedProject = (IF req.project \in {None, <<>>}
                              THEN Strip(gcloudOut) ELSE req.project)
       /\ (Format(req.project) = Str(ForwardedProject)) <=>
            (Truthy(req.project) \/ Format(req.project) = Str(Strip(gcloudOut)))

\* without a project from the caller, the Dockerfile says 'None' and gcloud's
\* configured project was forwarded
C10_Witness ==
  /\ JustDeployed
  /\ req.project = None
  /\ DockerfileProjectLine = "ENV GOOGLE_CLOUD_PROJECT=None"
  /\ ForwardedProject = <<"p", "2">>

====
